---- MODULE Spec2Model ----
(***************************************************************************)
(* Position-range sequence algorithms of package algorithm                 *)
(* (src/algorithm/algorithm.go).  A slice is a function from positions     *)
(* 0..n-1 to elements, so that positions in the model are the positions of *)
(* the source.  Every library function is an operator that is computed the *)
(* way the source computes it (a loop becomes a RECURSIVE operator over    *)
(* the loop's variables); the actions call the functions on a slice owned  *)
(* by the caller and record the call.  The library keeps no state between  *)
(* calls and every slice is an initial state, so a behaviour is one call:  *)
(* a second call would only repeat a call that some behaviour starts with. *)
(***************************************************************************)
EXTENDS Integers, Sequences, FiniteSets

\* ------------------------------------------------------------------ bounds
\* Longest slice the caller owns.
MaxLen == 4
\* Elements are the integers 0..MaxVal.
MaxVal == 2

\* Longest first slice of a call that takes two slices.
MaxLen1 == 3
\* Longest second slice of a call that takes two slices.
MaxLen2 == 2

Vals == 0..MaxVal

\* All slices of at most MaxLen elements.
Slices == UNION {[0..(n - 1) -> Vals] : n \in 0..MaxLen}

\* All second slices of at most MaxLen2 elements.
Slices2 == UNION {[0..(n - 1) -> Vals] : n \in 0..MaxLen2}

\* The values of a count argument: negative, zero, and up to one more than fits.
Counts == (0 - 1)..(MaxLen + 1)

\* Unary predicates func(T) bool, each given by the set of elements it accepts.
Preds == SUBSET Vals

\* len(r)
SliceLen(s) == Cardinality(DOMAIN s)

\* ------------------------------------------------------- helpers of claims
\* The elements of r[first, last) in order, as a sequence 1..last-first.
RangeSeq(r, first, last) == [j \in 1..(last - first) |-> r[first + j - 1]]

\* The bag of elements of r[first, last).
RangeBag(r, first, last) ==
    LET s == RangeSeq(r, first, last)
    IN  [v \in {s[j] : j \in DOMAIN s} |-> Cardinality({j \in DOMAIN s : s[j] = v})]

\* Every position outside [first, last) holds what it held in r0.
OutsideUnchanged(r, r0, first, last) ==
    /\ DOMAIN r = DOMAIN r0
    /\ \A j \in DOMAIN r0 : (j < first \/ j >= last) => r[j] = r0[j]

\* ------------------------------------------------------------------- state
VARIABLES
    r,      \* the caller's slice
    op,     \* the library function called last ("none" before the first call)
    pc,     \* "idle", or the label of the loop the running call is in
    args,   \* the arguments of that call
    r0,     \* the slice as it was when that call was made
    loc,    \* the local variables of the running call
    ret     \* the value the call returned

vars == <<r, op, pc, args, r0, loc, ret>>

NoArgs == [first |-> 0, last |-> 0]
NoLocals == [first |-> 0, i |-> 0]

Init ==
    /\ r \in Slices
    /\ op = "none"
    /\ pc = "idle"
    /\ args = NoArgs
    /\ r0 = r
    /\ loc = NoLocals
    /\ ret = 0

\* No call has been made yet.
Fresh == pc = "idle" /\ op = "none"

\* ---------------------------------------------------------------- queries
RECURSIVE Find(_, _, _, _)
Find(s, first, last, value) ==
    IF first = last THEN last
    ELSE IF s[first] = value THEN first
    ELSE Find(s, first + 1, last, value)

RECURSIVE FindIf(_, _, _, _)
FindIf(s, first, last, p) ==
    IF first = last THEN last
    ELSE IF s[first] \in p THEN first
    ELSE FindIf(s, first + 1, last, p)

RECURSIVE FindIfNot(_, _, _, _)
FindIfNot(s, first, last, q) ==
    IF first = last THEN last
    ELSE IF ~(s[first] \in q) THEN first
    ELSE FindIfNot(s, first + 1, last, q)

\* AnyOf testing == last, as NoneOf does.
AnyOfEqualsLast(s, first, last, p) == FindIf(s, first, last, p) = last

AllOf(s, first, last, p) == FindIfNot(s, first, last, p) = last

AnyOf(s, first, last, p) == FindIf(s, first, last, p) # last

NoneOf(s, first, last, p) == FindIf(s, first, last, p) = last

\* ----------------------------------------------------------------- remove
\* The loop of Remove: i runs from first+1 to last, first is the write cursor.
RECURSIVE RemoveLoop(_, _, _, _, _)
RemoveLoop(s, first, i, last, value) ==
    IF i = last THEN [r |-> s, ret |-> first]
    ELSE IF s[i] = value
         THEN RemoveLoop([s EXCEPT ![first] = s[i]], first + 1, i + 1, last, value)
         ELSE RemoveLoop(s, first, i + 1, last, value)

Remove(s, first, last, value) ==
    LET f == Find(s, first, last, value)
    IN  IF f # last
        THEN RemoveLoop(s, f, f + 1, last, value)
        ELSE [r |-> s, ret |-> f]

\* The loop of RemoveIf; writes counts the element writes r[first] = r[i].
RECURSIVE RemoveIfLoop(_, _, _, _, _, _)
RemoveIfLoop(s, first, i, last, p, writes) ==
    IF i = last THEN [r |-> s, ret |-> first, writes |-> writes]
    ELSE IF ~(s[i] \in p)
         THEN RemoveIfLoop([s EXCEPT ![first] = s[i]], first + 1, i + 1, last, p,
                           writes + 1)
         ELSE RemoveIfLoop(s, first, i + 1, last, p, writes)

\* RemoveIf with the test of the loop inverted.
RemoveIfKeepsMatches(s, first, last, p) ==
    LET f == FindIf(s, first, last, p)
    IN  IF f # last
        THEN RemoveIfLoop(s, f, f + 1, last, Vals \ p, 0)
        ELSE [r |-> s, ret |-> f, writes |-> 0]

RemoveIf(s, first, last, p) ==
    LET f == FindIf(s, first, last, p)
    IN  IF f # last
        THEN RemoveIfLoop(s, f, f + 1, last, p, 0)
        ELSE [r |-> s, ret |-> f, writes |-> 0]

\* ------------------------------------------------------------------ swap
\* IterSwap(&r[a], &r[b])
IterSwap(s, a, b) == [s EXCEPT ![a] = s[b], ![b] = s[a]]

\* ---------------------------------------------------------------- rotate
\* The swap loop of Rotate; swaps counts the calls of IterSwap.
RECURSIVE RotateLoop(_, _, _, _, _, _)
RotateLoop(s, write, next_read, read, last, swaps) ==
    IF read = last
    THEN [r |-> s, write |-> write, next_read |-> next_read, swaps |-> swaps]
    ELSE LET nr == IF write = next_read THEN read ELSE next_read
         IN  RotateLoop(IterSwap(s, write, read), write + 1, nr, read + 1, last,
                        swaps + 1)

\* Rotate returning middle where the source returns write.
RECURSIVE RotateReturnsMiddle(_, _, _, _)
RotateReturnsMiddle(s, first, middle, last) ==
    IF first = middle THEN [r |-> s, ret |-> last, depth |-> 1, swaps |-> 0]
    ELSE IF middle = last THEN [r |-> s, ret |-> first, depth |-> 1, swaps |-> 0]
    ELSE LET l == RotateLoop(s, first, first, middle, last, 0)
             rec == RotateReturnsMiddle(l.r, l.write, l.next_read, last)
         IN  [r |-> rec.r, ret |-> middle, depth |-> rec.depth + 1,
              swaps |-> l.swaps + rec.swaps]

\* Rotate without the recursive call on the unfinished remainder.
RotateNoRecursion(s, first, middle, last) ==
    IF first = middle THEN [r |-> s, ret |-> last, depth |-> 1, swaps |-> 0]
    ELSE IF middle = last THEN [r |-> s, ret |-> first, depth |-> 1, swaps |-> 0]
    ELSE LET l == RotateLoop(s, first, first, middle, last, 0)
         IN  [r |-> l.r, ret |-> l.write, depth |-> 1, swaps |-> l.swaps]

\* depth is the number of nested calls, swaps the IterSwap calls of all of them.
RECURSIVE Rotate(_, _, _, _)
Rotate(s, first, middle, last) ==
    IF first = middle THEN [r |-> s, ret |-> last, depth |-> 1, swaps |-> 0]
    ELSE IF middle = last THEN [r |-> s, ret |-> first, depth |-> 1, swaps |-> 0]
    ELSE LET l == RotateLoop(s, first, first, middle, last, 0)
             rec == Rotate(l.r, l.write, l.next_read, last)
         IN  [r |-> rec.r, ret |-> l.write, depth |-> rec.depth + 1,
              swaps |-> l.swaps + rec.swaps]

\* ------------------------------------------------------------- partition
\* The first loop of IsPartitioned: skip the elements that satisfy p.
RECURSIVE IsPartitionedSkip(_, _, _, _)
IsPartitionedSkip(s, first, last, p) ==
    IF first = last THEN first
    ELSE IF ~(s[first] \in p) THEN first
    ELSE IsPartitionedSkip(s, first + 1, last, p)

\* The second loop of IsPartitioned: no later element may satisfy p.
RECURSIVE IsPartitionedRest(_, _, _, _)
IsPartitionedRest(s, first, last, p) ==
    IF first = last THEN TRUE
    ELSE IF s[first] \in p THEN FALSE
    ELSE IsPartitionedRest(s, first + 1, last, p)

IsPartitioned(s, first, last, p) ==
    IsPartitionedRest(s, IsPartitionedSkip(s, first, last, p), last, p)

\* One iteration of the loop of Partition with the swap replaced by the
\* assignment r[first] = r[i] of Remove.
PartitionBodyAssigns(st, p) ==
    IF st.r[st.i] \in p
    THEN [r |-> [st.r EXCEPT ![st.first] = st.r[st.i]],
          first |-> st.first + 1, i |-> st.i + 1]
    ELSE [r |-> st.r, first |-> st.first, i |-> st.i + 1]

\* One iteration of the loop of Partition that swaps the elements failing p.
PartitionBodyInverted(st, p) ==
    IF ~(st.r[st.i] \in p)
    THEN [r |-> IterSwap(st.r, st.i, st.first), first |-> st.first + 1,
          i |-> st.i + 1]
    ELSE [r |-> st.r, first |-> st.first, i |-> st.i + 1]

\* One iteration of the loop of Partition, on the loop's variables
\* st = [r, first, i].
PartitionBody(st, p) ==
    IF st.r[st.i] \in p
    THEN [r |-> IterSwap(st.r, st.i, st.first), first |-> st.first + 1,
          i |-> st.i + 1]
    ELSE [r |-> st.r, first |-> st.first, i |-> st.i + 1]

\* The loop of PartitionPoint with first = middle in place of
\* first = middle + 1.
RECURSIVE PartitionPointLoopKeepsMiddle(_, _, _, _)
PartitionPointLoopKeepsMiddle(s, first, length, p) ==
    IF 0 < length
    THEN LET half == length \div 2
             middle == first + half
         IN  IF s[middle] \in p
             THEN PartitionPointLoopKeepsMiddle(s, middle, length - (half + 1), p)
             ELSE PartitionPointLoopKeepsMiddle(s, first, half, p)
    ELSE first

PartitionPointKeepsMiddle(s, first, last, p) ==
    PartitionPointLoopKeepsMiddle(s, first, last - first, p)

\* The loop of PartitionPoint: halve the range of length elements from first.
RECURSIVE PartitionPointLoop(_, _, _, _)
PartitionPointLoop(s, first, length, p) ==
    IF 0 < length
    THEN LET half == length \div 2
             middle == first + half
         IN  IF s[middle] \in p
             THEN PartitionPointLoop(s, middle + 1, length - (half + 1), p)
             ELSE PartitionPointLoop(s, first, half, p)
    ELSE first

PartitionPoint(s, first, last, p) ==
    PartitionPointLoop(s, first, last - first, p)

\* ----------------------------------------------------------------- unique
\* The loop of Unique: result is the last kept position, first the read cursor.
RECURSIVE UniqueLoop(_, _, _, _)
UniqueLoop(s, result, first, last) ==
    IF first = last THEN [r |-> s, ret |-> result + 1]
    ELSE IF s[result] # s[first]
         THEN UniqueLoop([s EXCEPT ![result + 1] = s[first]], result + 1,
                         first + 1, last)
         ELSE UniqueLoop(s, result, first + 1, last)

\* Unique writing r[result] = r[first] before it increments result.
RECURSIVE UniqueLoopWritesFirst(_, _, _, _)
UniqueLoopWritesFirst(s, result, first, last) ==
    IF first = last THEN [r |-> s, ret |-> result + 1]
    ELSE IF s[result] # s[first]
         THEN UniqueLoopWritesFirst([s EXCEPT ![result] = s[first]], result + 1,
                                    first + 1, last)
         ELSE UniqueLoopWritesFirst(s, result, first + 1, last)

UniqueWritesFirst(s, first, last) ==
    IF first = last THEN [r |-> s, ret |-> last]
    ELSE UniqueLoopWritesFirst(s, first, first + 1, last)

\* Unique returning result where the source returns result + 1.
UniqueReturnsResult(s, first, last) ==
    IF first = last THEN [r |-> s, ret |-> last]
    ELSE LET out == UniqueLoop(s, first, first + 1, last)
         IN  [r |-> out.r, ret |-> out.ret - 1]

Unique(s, first, last) ==
    IF first = last THEN [r |-> s, ret |-> last]
    ELSE UniqueLoop(s, first, first + 1, last)

\* ------------------------------------------------------------ lower bound
\* Binary predicates func(T, T) bool, each given by the set of pairs it accepts.
LessThan == {<<a, b>> \in Vals \X Vals : a < b}
GreaterThan == {<<a, b>> \in Vals \X Vals : a > b}
Comps == {LessThan, GreaterThan}

RECURSIVE LowerBound(_, _, _, _)
LowerBound(s, first, last, value) ==
    IF first < last - 1
    THEN LET it == first + (last - first) \div 2
         IN  IF s[it] < value
             THEN LowerBound(s, it, last, value)
             ELSE LowerBound(s, first, it, value)
    ELSE last

RECURSIVE LowerBoundFunc(_, _, _, _, _)
LowerBoundFunc(s, first, last, value, comp) ==
    IF first < last - 1
    THEN LET it == first + (last - first) \div 2
         IN  IF <<s[it], value>> \in comp
             THEN LowerBoundFunc(s, it, last, value, comp)
             ELSE LowerBoundFunc(s, first, it, value, comp)
    ELSE last

\* ------------------------------------------------------------ upper bound
\* UpperBound returning first where the source returns last.
RECURSIVE UpperBoundReturnsFirst(_, _, _, _)
UpperBoundReturnsFirst(s, first, last, value) ==
    IF first < last - 1
    THEN LET it == first + (last - first) \div 2
         IN  IF s[it] <= value
             THEN UpperBoundReturnsFirst(s, it, last, value)
             ELSE UpperBoundReturnsFirst(s, first, it, value)
    ELSE first

RECURSIVE UpperBound(_, _, _, _)
UpperBound(s, first, last, value) ==
    IF first < last - 1
    THEN LET it == first + (last - first) \div 2
         IN  IF s[it] <= value
             THEN UpperBound(s, it, last, value)
             ELSE UpperBound(s, first, it, value)
    ELSE last

RECURSIVE UpperBoundFunc(_, _, _, _, _)
UpperBoundFunc(s, first, last, value, comp) ==
    IF first < last - 1
    THEN LET it == first + (last - first) \div 2
         IN  IF ~(<<value, s[it]>> \in comp)
             THEN UpperBoundFunc(s, it, last, value, comp)
             ELSE UpperBoundFunc(s, first, it, value, comp)
    ELSE last

\* ----------------------------------------------------------------- search
\* The inner loop of Search from candidate start it: "found" when the pattern
\* is exhausted, "end" when the text is, "break" at the first difference.
RECURSIVE SearchInner(_, _, _, _, _, _)
SearchInner(s1, s2, it, last, s_it, s_last) ==
    IF s_it = s_last THEN "found"
    ELSE IF it = last THEN "end"
    ELSE IF s1[it] # s2[s_it] THEN "break"
    ELSE SearchInner(s1, s2, it + 1, last, s_it + 1, s_last)

\* The inner loop of Search testing it == last before s_it == s_last.
RECURSIVE SearchInnerEndFirst(_, _, _, _, _, _)
SearchInnerEndFirst(s1, s2, it, last, s_it, s_last) ==
    IF it = last THEN "end"
    ELSE IF s_it = s_last THEN "found"
    ELSE IF s1[it] # s2[s_it] THEN "break"
    ELSE SearchInnerEndFirst(s1, s2, it + 1, last, s_it + 1, s_last)

\* Search with the two exit tests of the inner loop in the other order.
RECURSIVE SearchChecksEndFirst(_, _, _, _, _, _)
SearchChecksEndFirst(s1, s2, first, last, s_first, s_last) ==
    LET res == SearchInnerEndFirst(s1, s2, first, last, s_first, s_last)
    IN  IF res = "found" THEN first
        ELSE IF res = "end" THEN last
        ELSE SearchChecksEndFirst(s1, s2, first + 1, last, s_first, s_last)

\* The outer loop of Search: one candidate start per iteration.
RECURSIVE Search(_, _, _, _, _, _)
Search(s1, s2, first, last, s_first, s_last) ==
    LET res == SearchInner(s1, s2, first, last, s_first, s_last)
    IN  IF res = "found" THEN first
        ELSE IF res = "end" THEN last
        ELSE Search(s1, s2, first + 1, last, s_first, s_last)

\* The inner loop of SearchN, entered with r[first] = value: it returns
\* candidate or last, or breaks with first at the element that ended the run.
RECURSIVE SearchNInner(_, _, _, _, _, _, _)
SearchNInner(s, first, last, count, value, candidate, cur_count) ==
    IF cur_count >= count THEN [returned |-> TRUE, ret |-> candidate]
    ELSE IF first + 1 = last THEN [returned |-> TRUE, ret |-> last]
    ELSE IF s[first + 1] # value THEN [returned |-> FALSE, first |-> first + 1]
    ELSE SearchNInner(s, first + 1, last, count, value, candidate, cur_count + 1)

\* The outer loop of SearchN.
RECURSIVE SearchNLoop(_, _, _, _, _)
SearchNLoop(s, first, last, count, value) ==
    IF first = last THEN last
    ELSE IF s[first] # value THEN SearchNLoop(s, first + 1, last, count, value)
    ELSE LET in == SearchNInner(s, first, last, count, value, first, 1)
         IN  IF in.returned THEN in.ret
             ELSE SearchNLoop(s, in.first + 1, last, count, value)

\* SearchN asking for cur_count > count where the source asks cur_count >= count.
SearchNOneTooMany(s, first, last, count, value) ==
    IF count <= 0 THEN first
    ELSE SearchNLoop(s, first, last, count + 1, value)

SearchN(s, first, last, count, value) ==
    IF count <= 0 THEN first
    ELSE SearchNLoop(s, first, last, count, value)

\* --------------------------------------------------------------- mismatch
\* utility.MakePair(t, u)
MakePair(t, u) == [first |-> t, second |-> u]

\* The binary predicate operator== and the binary predicates a caller passes.
Equality == {<<a, b>> \in Vals \X Vals : a = b}
BinPreds == {Equality, LessThan}

\* What a call of the Mismatch family ends with: the pair it returns, or a
\* run-time panic (index out of range) with the cursors where it happened.
Returned(first1, first2) == [panic |-> FALSE, pair |-> MakePair(first1, first2)]
Panicked(first1, first2) == [panic |-> TRUE, pair |-> MakePair(first1, first2)]

\* The loop of Mismatch compares r1[first1] with r1[first2]: r2 is never read.
RECURSIVE Mismatch(_, _, _, _, _)
Mismatch(s1, s2, first1, last1, first2) ==
    IF first1 = last1 THEN Returned(first1, first2)
    ELSE IF ~(first1 \in DOMAIN s1 /\ first2 \in DOMAIN s1)
         THEN Panicked(first1, first2)
    ELSE IF s1[first1] = s1[first2]
         THEN Mismatch(s1, s2, first1 + 1, last1, first2 + 1)
    ELSE Returned(first1, first2)

RECURSIVE MismatchFunc(_, _, _, _, _, _)
MismatchFunc(s1, s2, first1, last1, first2, p) ==
    IF first1 = last1 THEN Returned(first1, first2)
    ELSE IF ~(first1 \in DOMAIN s1 /\ first2 \in DOMAIN s2)
         THEN Panicked(first1, first2)
    ELSE IF <<s1[first1], s2[first2]>> \in p
         THEN MismatchFunc(s1, s2, first1 + 1, last1, first2 + 1, p)
    ELSE Returned(first1, first2)

\* The loop of Mismatch2 compares r1[first1] with r1[first2] as well.
RECURSIVE Mismatch2(_, _, _, _, _, _)
Mismatch2(s1, s2, first1, last1, first2, last2) ==
    IF first1 = last1 \/ first2 = last2 THEN Returned(first1, first2)
    ELSE IF ~(first1 \in DOMAIN s1 /\ first2 \in DOMAIN s1)
         THEN Panicked(first1, first2)
    ELSE IF s1[first1] = s1[first2]
         THEN Mismatch2(s1, s2, first1 + 1, last1, first2 + 1, last2)
    ELSE Returned(first1, first2)

RECURSIVE MismatchFunc2(_, _, _, _, _, _, _)
MismatchFunc2(s1, s2, first1, last1, first2, last2, p) ==
    IF first1 = last1 \/ first2 = last2 THEN Returned(first1, first2)
    ELSE IF ~(first1 \in DOMAIN s1 /\ first2 \in DOMAIN s2)
         THEN Panicked(first1, first2)
    ELSE IF <<s1[first1], s2[first2]>> \in p
         THEN MismatchFunc2(s1, s2, first1 + 1, last1, first2 + 1, last2, p)
    ELSE Returned(first1, first2)

\* ------------------------------------------------------------------ equal
RECURSIVE Equal2(_, _, _, _, _, _)
Equal2(s1, s2, first1, last1, first2, last2) ==
    IF first1 # last1 /\ first2 # last2
    THEN IF s1[first1] # s2[first2] THEN FALSE
         ELSE Equal2(s1, s2, first1 + 1, last1, first2 + 1, last2)
    ELSE TRUE

RECURSIVE EqualFunc2(_, _, _, _, _, _, _)
EqualFunc2(s1, s2, first1, last1, first2, last2, p) ==
    IF first1 # last1 /\ first2 # last2
    THEN IF ~(<<s1[first1], s2[first2]>> \in p) THEN FALSE
         ELSE EqualFunc2(s1, s2, first1 + 1, last1, first2 + 1, last2, p)
    ELSE TRUE

\* ------------------------------------------------------------------- copy
\* Copy(r1, r2, first, last, d_first) on a memory m of named slices, a and b the
\* names of r1 and r2: the two parameters may name the same slice, and then
\* every write is seen by the later reads.
RECURSIVE Copy(_, _, _, _, _, _)
Copy(m, a, b, first, last, d_first) ==
    IF first # last
    THEN Copy([m EXCEPT ![b] = [@ EXCEPT ![d_first] = m[a][first]]],
              a, b, first + 1, last, d_first + 1)
    ELSE [m |-> m, ret |-> d_first]

Move(m, a, b, first, last, d_first) == Copy(m, a, b, first, last, d_first)

\* ------------------------------------------------------------------ shift
\* The shift counts a caller passes (a negative n is undefined behaviour by
\* the documentation and is not passed).
Shifts == 0..(MaxLen + 1)

\* ShiftLeft moving from first + 1 instead of first + n.
ShiftLeftByOne(s, first, last, n) ==
    IF n = 0 THEN [r |-> s, ret |-> last]
    ELSE IF n >= last - first THEN [r |-> s, ret |-> first]
    ELSE LET c == Move([x \in {"r"} |-> s], "r", "r", first + 1, last, first)
         IN  [r |-> c.m["r"], ret |-> c.ret]

ShiftLeft(s, first, last, n) ==
    IF n = 0 THEN [r |-> s, ret |-> last]
    ELSE IF n >= last - first THEN [r |-> s, ret |-> first]
    ELSE LET c == Move([x \in {"r"} |-> s], "r", "r", first + n, last, first)
         IN  [r |-> c.m["r"], ret |-> c.ret]

\* One iteration of the loop of ShiftRight with the assignment reversed:
\* r[i - n] = r[i].
ShiftRightBodyReversed(st, n) ==
    [r |-> [st.r EXCEPT ![st.i - n] = st.r[st.i]],
     i |-> st.i - 1,
     written |-> st.written \cup {st.i - n},
     clobbered |-> st.clobbered \/ st.i \in st.written]

\* One iteration of the loop of ShiftRight: r[i] = r[i - n]; i--. The ghost
\* fields record the positions written so far and whether an iteration has
\* read a position that an earlier iteration had written.
ShiftRightBody(st, n) ==
    [r |-> [st.r EXCEPT ![st.i] = st.r[st.i - n]],
     i |-> st.i - 1,
     written |-> st.written \cup {st.i},
     clobbered |-> st.clobbered \/ (st.i - n) \in st.written]

\* ---------------------------------------------------------------- reverse
\* Destination slices a caller makes for a copying call: make([]T, n) filled
\* with one element.
Buffers == {[j \in 0..(n - 1) |-> v] : n \in 0..MaxLen1, v \in {0, MaxVal}}

\* The memory of a call that takes the two slices r1 and r2.
Mem2(s1, s2) == [x \in {"r1", "r2"} |-> IF x = "r1" THEN s1 ELSE s2]

\* The loop of Reverse with first++ only: last is never decremented.
RECURSIVE ReverseLoopKeepsLast(_, _, _)
ReverseLoopKeepsLast(s, first, last) ==
    IF first < last
    THEN ReverseLoopKeepsLast(IterSwap(s, first, last), first + 1, last)
    ELSE s

ReverseKeepsLast(s, first, last) == ReverseLoopKeepsLast(s, first, last - 1)

\* The loop of Reverse, entered after last--.
RECURSIVE ReverseLoop(_, _, _)
ReverseLoop(s, first, last) ==
    IF first < last
    THEN ReverseLoop(IterSwap(s, first, last), first + 1, last - 1)
    ELSE s

Reverse(s, first, last) == ReverseLoop(s, first, last - 1)

\* ReverseCopy(r1, r2, first, last, d_first) on a memory m, a and b the names
\* of r1 and r2.
RECURSIVE ReverseCopy(_, _, _, _, _, _)
ReverseCopy(m, a, b, first, last, d_first) ==
    IF first # last
    THEN ReverseCopy([m EXCEPT ![b] = [@ EXCEPT ![d_first] = m[a][last - 1]]],
                     a, b, first, last - 1, d_first + 1)
    ELSE [m |-> m, ret |-> d_first]

\* --------------------------------------------------------- partition copy
\* PartitionCopy with the two branches exchanged: the elements that satisfy p
\* go to d_first_false.
RECURSIVE PartitionCopyInverted(_, _, _, _, _, _, _, _)
PartitionCopyInverted(m, a, b, first, last, d_first_true, d_first_false, p) ==
    IF first # last
    THEN IF m[a][first] \in p
         THEN PartitionCopyInverted(
                  [m EXCEPT ![b] = [@ EXCEPT ![d_first_false] = m[a][first]]],
                  a, b, first + 1, last, d_first_true, d_first_false + 1, p)
         ELSE PartitionCopyInverted(
                  [m EXCEPT ![b] = [@ EXCEPT ![d_first_true] = m[a][first]]],
                  a, b, first + 1, last, d_first_true + 1, d_first_false, p)
    ELSE [m |-> m, ret |-> MakePair(d_first_true, d_first_false)]

\* PartitionCopy(r1, r2, first, last, d_first_true, d_first_false, p) on a
\* memory m, a and b the names of r1 and r2.
RECURSIVE PartitionCopy(_, _, _, _, _, _, _, _)
PartitionCopy(m, a, b, first, last, d_first_true, d_first_false, p) ==
    IF first # last
    THEN IF m[a][first] \in p
         THEN PartitionCopy(
                  [m EXCEPT ![b] = [@ EXCEPT ![d_first_true] = m[a][first]]],
                  a, b, first + 1, last, d_first_true + 1, d_first_false, p)
         ELSE PartitionCopy(
                  [m EXCEPT ![b] = [@ EXCEPT ![d_first_false] = m[a][first]]],
                  a, b, first + 1, last, d_first_true, d_first_false + 1, p)
    ELSE [m |-> m, ret |-> MakePair(d_first_true, d_first_false)]

\* ---------------------------------------------------------- adjacent find
\* The loop of AdjacentFindFunc returning next where the source returns first.
RECURSIVE AdjacentFindLoopReturnsNext(_, _, _, _, _, _)
AdjacentFindLoopReturnsNext(s, first, next, last, p, reads) ==
    IF next # last
    THEN IF <<s[first], s[next]>> \in p
         THEN [ret |-> next, reads |-> reads \cup {first, next}]
         ELSE AdjacentFindLoopReturnsNext(s, first + 1, next + 1, last, p,
                                          reads \cup {first, next})
    ELSE [ret |-> last, reads |-> reads]

AdjacentFindFuncReturnsNext(s, first, last, p) ==
    IF first = last THEN [ret |-> last, reads |-> {}]
    ELSE AdjacentFindLoopReturnsNext(s, first, first + 1, last, p, {})

\* The loop of AdjacentFind and AdjacentFindFunc; reads is the set of positions
\* of s read so far.
RECURSIVE AdjacentFindLoop(_, _, _, _, _, _)
AdjacentFindLoop(s, first, next, last, p, reads) ==
    IF next # last
    THEN IF <<s[first], s[next]>> \in p
         THEN [ret |-> first, reads |-> reads \cup {first, next}]
         ELSE AdjacentFindLoop(s, first + 1, next + 1, last, p,
                               reads \cup {first, next})
    ELSE [ret |-> last, reads |-> reads]

AdjacentFindFunc(s, first, last, p) ==
    IF first = last THEN [ret |-> last, reads |-> {}]
    ELSE AdjacentFindLoop(s, first, first + 1, last, p, {})

\* AdjacentFind is AdjacentFindFunc with operator== written in the loop.
AdjacentFind(s, first, last) == AdjacentFindFunc(s, first, last, Equality)

\* ----------------------------------------------------------- loop steps
\* The loops of the functions below, one iteration at a time: a condition
\* operator for the loop test, a body operator for one iteration on the record
\* st of the loop variables.

\* The loop test of LowerBound with last in place of last - 1.
LowerBoundCondToLast(st) == st.first < st.last

\* for first < last-1
LowerBoundCond(st) == st.first < st.last - 1

LowerBoundBody(st, s, value) ==
    LET it == st.first + (st.last - st.first) \div 2
    IN  IF s[it] < value
        THEN [first |-> it, last |-> st.last]
        ELSE [first |-> st.first, last |-> it]

UpperBoundCond(st) == st.first < st.last - 1

UpperBoundBody(st, s, value) ==
    LET it == st.first + (st.last - st.first) \div 2
    IN  IF s[it] <= value
        THEN [first |-> it, last |-> st.last]
        ELSE [first |-> st.first, last |-> it]

\* for length := last - first; 0 < length;
PartitionPointCond(st) == 0 < st.length

PartitionPointBody(st, s, p) ==
    LET half == st.length \div 2
        middle == st.first + half
    IN  IF s[middle] \in p
        THEN [first |-> middle + 1, length |-> st.length - (half + 1)]
        ELSE [first |-> st.first, length |-> half]

\* Search: the two return tests at the head of the inner loop.
SearchReturns(st, last, s_last) == st.s_it = s_last \/ st.it = last

SearchResult(st, last, s_last) == IF st.s_it = s_last THEN st.first ELSE last

\* The rest of one inner iteration of Search: on a difference break, first++
\* and the next outer iteration sets it and s_it; otherwise it++, s_it++.
SearchBody(st, s1, s2, s_first) ==
    IF s1[st.it] # s2[st.s_it]
    THEN [first |-> st.first + 1, it |-> st.first + 1, s_it |-> s_first]
    ELSE [first |-> st.first, it |-> st.it + 1, s_it |-> st.s_it + 1]

\* SearchN after count <= 0 was excluded. st.inner tells whether control is at
\* the head of the inner loop (with candidate and cur_count set) or at the
\* test of the outer loop.
SearchNReturns(st, last, count) ==
    IF st.inner
    THEN st.cur_count >= count \/ st.first + 1 = last
    ELSE st.first = last

SearchNResult(st, last, count) ==
    IF st.inner /\ st.cur_count >= count THEN st.candidate ELSE last

SearchNBody(st, s, value) ==
    IF st.inner
    THEN IF s[st.first + 1] # value
         THEN [st EXCEPT !.first = st.first + 2, !.inner = FALSE]
         ELSE [st EXCEPT !.first = st.first + 1, !.cur_count = st.cur_count + 1]
    ELSE IF s[st.first] # value
         THEN [st EXCEPT !.first = st.first + 1]
         ELSE [st EXCEPT !.inner = TRUE, !.candidate = st.first, !.cur_count = 1]

\* The loop variables of a call Rotate(r, first, middle, last) that passed the
\* two early returns; depth counts the calls of Rotate so far, swaps the
\* IterSwap calls, result is what the outermost call will return.
RotateEnter(first, middle, depth, swaps, result) ==
    [first |-> first, middle |-> middle, write |-> first, next_read |-> first,
     read |-> middle, depth |-> depth, swaps |-> swaps, result |-> result]

\* One iteration of the swap loop of Rotate without the update of next_read.
RotateBodyKeepsNextRead(st, s) ==
    [r |-> IterSwap(s, st.write, st.read),
     st |-> [st EXCEPT !.write = st.write + 1,
                       !.read = st.read + 1,
                       !.swaps = st.swaps + 1]]

\* One iteration of the swap loop of Rotate.
RotateBody(st, s) ==
    [r |-> IterSwap(s, st.write, st.read),
     st |-> [st EXCEPT !.next_read = IF st.write = st.next_read
                                     THEN st.read ELSE st.next_read,
                       !.write = st.write + 1,
                       !.read = st.read + 1,
                       !.swaps = st.swaps + 1]]

\* ------------------------------------------------------------ unique copy
\* The memory of a call UniqueCopy(r1, r2, ...): one slice under both names
\* when the caller passes the same slice twice, two slices otherwise.
AliasMem(alias, s1, s2) ==
    IF alias THEN [x \in {"r1"} |-> s1] ELSE Mem2(s1, s2)

\* The name under which the memory holds r2.
AliasName(alias) == IF alias THEN "r1" ELSE "r2"

\* One iteration of the loop of UniqueCopy without the test: every element is
\* copied.
UniqueCopyBodyAlwaysCopies(st, m, b, p) ==
    [m |-> [m EXCEPT ![b] = [@ EXCEPT ![st.d_first + 1] = m["r1"][st.first]]],
     st |-> [first |-> st.first + 1, d_first |-> st.d_first + 1,
             overwrote |-> st.overwrote \/ (b = "r1" /\ st.d_first + 1 > st.first)]]

\* One iteration of the loop of UniqueCopy (p is operator==) and of
\* UniqueCopyFunc on the memory m, b the name of r2. st.overwrote records a
\* write to a position of the shared slice beyond the one just read.
UniqueCopyBody(st, m, b, p) ==
    IF ~(<<m["r1"][st.first], m[b][st.d_first]>> \in p)
    THEN [m |-> [m EXCEPT ![b] = [@ EXCEPT ![st.d_first + 1] = m["r1"][st.first]]],
          st |-> [first |-> st.first + 1, d_first |-> st.d_first + 1,
                  overwrote |-> st.overwrote
                                   \/ (b = "r1" /\ st.d_first + 1 > st.first)]]
    ELSE [m |-> m, st |-> [st EXCEPT !.first = st.first + 1]]

\* ---------------------------------------------------------------- actions
\* The caller calls Remove(r, first, last, value) on a valid range.
CallRemove ==
    /\ Fresh
    /\ \E first \in 0..SliceLen(r), value \in Vals :
         \E last \in first..SliceLen(r) :
           LET out == Remove(r, first, last, value)
           IN  /\ op' = "Remove"
               /\ args' = [first |-> first, last |-> last, value |-> value]
               /\ r0' = r
               /\ r' = out.r
               /\ ret' = out.ret
    /\ UNCHANGED <<pc, loc>>

\* The caller calls RemoveIf(r, first, last, p) on a valid range.
CallRemoveIf ==
    /\ Fresh
    /\ \E first \in 0..SliceLen(r), p \in Preds :
         \E last \in first..SliceLen(r) :
           LET out == RemoveIf(r, first, last, p)
           IN  /\ op' = "RemoveIf"
               /\ args' = [first |-> first, last |-> last, p |-> p]
               /\ r0' = r
               /\ r' = out.r
               /\ ret' = out.ret
               /\ loc' = [writes |-> out.writes]
    /\ UNCHANGED pc

NextRemove == CallRemove \/ CallRemoveIf

SpecRemove == Init /\ [][NextRemove]_vars

\* The caller calls Rotate(r, first, middle, last), first <= middle <= last.
CallRotate ==
    /\ Fresh
    /\ \E first \in 0..SliceLen(r) :
         \E last \in first..SliceLen(r) :
           \E middle \in first..last :
             LET out == Rotate(r, first, middle, last)
             IN  /\ op' = "Rotate"
                 /\ args' = [first |-> first, middle |-> middle, last |-> last]
                 /\ r0' = r
                 /\ r' = out.r
                 /\ ret' = out.ret
                 /\ loc' = [depth |-> out.depth, swaps |-> out.swaps]
    /\ UNCHANGED pc

NextRotate == CallRotate

SpecRotate == Init /\ [][NextRotate]_vars

\* The caller calls Partition(r, first, last, p) on a valid range: the call
\* skips the leading elements that satisfy p and returns if there is no other,
\* else it enters the loop.
CallPartition ==
    /\ Fresh
    /\ \E first \in 0..SliceLen(r), p \in Preds :
         \E last \in first..SliceLen(r) :
           LET f == FindIfNot(r, first, last, p)
           IN  /\ op' = "Partition"
               /\ args' = [first |-> first, last |-> last, p |-> p]
               /\ r0' = r
               /\ IF f = last
                  THEN /\ ret' = f
                       /\ UNCHANGED <<pc, loc>>
                  ELSE /\ pc' = "Partition"
                       /\ loc' = [first |-> f, i |-> f + 1]
                       /\ UNCHANGED ret
    /\ UNCHANGED r

\* One iteration of the loop of Partition.
PartitionIter ==
    /\ pc = "Partition"
    /\ loc.i # args.last
    /\ LET st == PartitionBody([r |-> r, first |-> loc.first, i |-> loc.i], args.p)
       IN  /\ r' = st.r
           /\ loc' = [first |-> st.first, i |-> st.i]
    /\ UNCHANGED <<op, pc, args, r0, ret>>

\* The loop of Partition is over: return first.
PartitionReturn ==
    /\ pc = "Partition"
    /\ loc.i = args.last
    /\ ret' = loc.first
    /\ pc' = "idle"
    /\ UNCHANGED <<r, op, args, r0, loc>>

\* The caller calls PartitionPoint(r, first, last, p) on a valid range; the
\* function only reads r.
CallPartitionPoint ==
    /\ Fresh
    /\ \E first \in 0..SliceLen(r), p \in Preds :
         \E last \in first..SliceLen(r) :
           /\ op' = "PartitionPoint"
           /\ args' = [first |-> first, last |-> last, p |-> p]
           /\ r0' = r
           /\ ret' = PartitionPoint(r, first, last, p)
    /\ UNCHANGED <<r, pc, loc>>

NextPartition ==
    \/ CallPartition
    \/ PartitionIter
    \/ PartitionReturn
    \/ CallPartitionPoint

SpecPartition == Init /\ [][NextPartition]_vars

\* The caller calls Unique(r, first, last) on a valid range.
CallUnique ==
    /\ Fresh
    /\ \E first \in 0..SliceLen(r) :
         \E last \in first..SliceLen(r) :
           LET out == Unique(r, first, last)
           IN  /\ op' = "Unique"
               /\ args' = [first |-> first, last |-> last]
               /\ r0' = r
               /\ r' = out.r
               /\ ret' = out.ret
    /\ UNCHANGED <<pc, loc>>

NextUnique == CallUnique

SpecUnique == Init /\ [][NextUnique]_vars

\* The caller calls LowerBound(r, first, last, value) on a valid range.
CallLowerBound ==
    /\ Fresh
    /\ \E first \in 0..SliceLen(r), value \in Vals :
         \E last \in first..SliceLen(r) :
           /\ op' = "LowerBound"
           /\ args' = [first |-> first, last |-> last, value |-> value]
           /\ r0' = r
           /\ ret' = LowerBound(r, first, last, value)
    /\ UNCHANGED <<r, pc, loc>>

\* The caller calls LowerBoundFunc(r, first, last, value, comp) on a valid
\* range.
CallLowerBoundFunc ==
    /\ Fresh
    /\ \E first \in 0..SliceLen(r), value \in Vals, comp \in Comps :
         \E last \in first..SliceLen(r) :
           /\ op' = "LowerBoundFunc"
           /\ args' = [first |-> first, last |-> last, value |-> value,
                       comp |-> comp]
           /\ r0' = r
           /\ ret' = LowerBoundFunc(r, first, last, value, comp)
    /\ UNCHANGED <<r, pc, loc>>

\* The caller calls UpperBound(r, first, last, value) on a valid range.
CallUpperBound ==
    /\ Fresh
    /\ \E first \in 0..SliceLen(r), value \in Vals :
         \E last \in first..SliceLen(r) :
           /\ op' = "UpperBound"
           /\ args' = [first |-> first, last |-> last, value |-> value]
           /\ r0' = r
           /\ ret' = UpperBound(r, first, last, value)
    /\ UNCHANGED <<r, pc, loc>>

\* The caller calls UpperBoundFunc(r, first, last, value, comp) on a valid
\* range.
CallUpperBoundFunc ==
    /\ Fresh
    /\ \E first \in 0..SliceLen(r), value \in Vals, comp \in Comps :
         \E last \in first..SliceLen(r) :
           /\ op' = "UpperBoundFunc"
           /\ args' = [first |-> first, last |-> last, value |-> value,
                       comp |-> comp]
           /\ r0' = r
           /\ ret' = UpperBoundFunc(r, first, last, value, comp)
    /\ UNCHANGED <<r, pc, loc>>

NextBound ==
    \/ CallLowerBound
    \/ CallLowerBoundFunc
    \/ CallUpperBound
    \/ CallUpperBoundFunc

SpecBound == Init /\ [][NextBound]_vars

\* The caller calls Search(r, r2, first, last, s_first, s_last) on a valid range
\* of r and a valid range of a second slice r2.
CallSearch ==
    /\ Fresh
    /\ SliceLen(r) <= MaxLen1
    /\ \E first \in 0..SliceLen(r), r2 \in Slices2 :
         \E last \in first..SliceLen(r), s_first \in 0..SliceLen(r2) :
           \E s_last \in s_first..SliceLen(r2) :
             /\ op' = "Search"
             /\ args' = [first |-> first, last |-> last, r2 |-> r2,
                         s_first |-> s_first, s_last |-> s_last]
             /\ r0' = r
             /\ ret' = Search(r, r2, first, last, s_first, s_last)
    /\ UNCHANGED <<r, pc, loc>>

\* The caller calls SearchN(r, first, last, count, value) on a valid range.
CallSearchN ==
    /\ Fresh
    /\ \E first \in 0..SliceLen(r), value \in Vals, count \in Counts :
         \E last \in first..SliceLen(r) :
           /\ op' = "SearchN"
           /\ args' = [first |-> first, last |-> last, count |-> count,
                       value |-> value]
           /\ r0' = r
           /\ ret' = SearchN(r, first, last, count, value)
    /\ UNCHANGED <<r, pc, loc>>

NextSearch == CallSearch \/ CallSearchN

SpecSearch == Init /\ [][NextSearch]_vars

\* The caller calls Mismatch(r, r2, first1, last1, first2) on a valid range of
\* r and a second slice that holds first2 + (last1 - first1) elements.
CallMismatch ==
    /\ Fresh
    /\ SliceLen(r) <= MaxLen1
    /\ \E first1 \in 0..SliceLen(r), r2 \in Slices2 :
         \E last1 \in first1..SliceLen(r), first2 \in 0..SliceLen(r2) :
           /\ first2 + (last1 - first1) <= SliceLen(r2)
           /\ op' = "Mismatch"
           /\ args' = [first1 |-> first1, last1 |-> last1, r2 |-> r2,
                       first2 |-> first2]
           /\ r0' = r
           /\ ret' = Mismatch(r, r2, first1, last1, first2)
    /\ UNCHANGED <<r, pc, loc>>

\* The caller calls Mismatch2(r, r2, first1, last1, first2, last2) on valid
\* ranges of the two slices.
CallMismatch2 ==
    /\ Fresh
    /\ SliceLen(r) <= MaxLen1
    /\ \E first1 \in 0..SliceLen(r), r2 \in Slices2 :
         \E last1 \in first1..SliceLen(r), first2 \in 0..SliceLen(r2) :
           \E last2 \in first2..SliceLen(r2) :
             /\ op' = "Mismatch2"
             /\ args' = [first1 |-> first1, last1 |-> last1, r2 |-> r2,
                         first2 |-> first2, last2 |-> last2]
             /\ r0' = r
             /\ ret' = Mismatch2(r, r2, first1, last1, first2, last2)
    /\ UNCHANGED <<r, pc, loc>>

\* The caller calls Equal2(r, r2, first1, last1, first2, last2) on valid ranges
\* of the two slices.
CallEqual2 ==
    /\ Fresh
    /\ SliceLen(r) <= MaxLen1
    /\ \E first1 \in 0..SliceLen(r), r2 \in Slices2 :
         \E last1 \in first1..SliceLen(r), first2 \in 0..SliceLen(r2) :
           \E last2 \in first2..SliceLen(r2) :
             /\ op' = "Equal2"
             /\ args' = [first1 |-> first1, last1 |-> last1, r2 |-> r2,
                         first2 |-> first2, last2 |-> last2, p |-> Equality]
             /\ r0' = r
             /\ ret' = Equal2(r, r2, first1, last1, first2, last2)
    /\ UNCHANGED <<r, pc, loc>>

\* The caller calls EqualFunc2(r, r2, first1, last1, first2, last2, p) on valid
\* ranges of the two slices.
CallEqualFunc2 ==
    /\ Fresh
    /\ SliceLen(r) <= MaxLen1
    /\ \E first1 \in 0..SliceLen(r), r2 \in Slices2, p \in BinPreds :
         \E last1 \in first1..SliceLen(r), first2 \in 0..SliceLen(r2) :
           \E last2 \in first2..SliceLen(r2) :
             /\ op' = "EqualFunc2"
             /\ args' = [first1 |-> first1, last1 |-> last1, r2 |-> r2,
                         first2 |-> first2, last2 |-> last2, p |-> p]
             /\ r0' = r
             /\ ret' = EqualFunc2(r, r2, first1, last1, first2, last2, p)
    /\ UNCHANGED <<r, pc, loc>>

NextMatch == CallMismatch \/ CallMismatch2 \/ CallEqual2 \/ CallEqualFunc2

SpecMatch == Init /\ [][NextMatch]_vars

\* The caller calls ShiftLeft(r, first, last, n) on a valid range.
CallShiftLeft ==
    /\ Fresh
    /\ \E first \in 0..SliceLen(r), n \in Shifts :
         \E last \in first..SliceLen(r) :
           LET res == ShiftLeft(r, first, last, n)
           IN  /\ op' = "ShiftLeft"
               /\ args' = [first |-> first, last |-> last, n |-> n]
               /\ r0' = r
               /\ r' = res.r
               /\ ret' = res.ret
    /\ UNCHANGED <<pc, loc>>

\* The caller calls ShiftRight(r, first, last, n) on a valid range: the two
\* early returns, or the entry of the loop with i = last - 1.
CallShiftRight ==
    /\ Fresh
    /\ \E first \in 0..SliceLen(r), n \in Shifts :
         \E last \in first..SliceLen(r) :
           /\ op' = "ShiftRight"
           /\ args' = [first |-> first, last |-> last, n |-> n]
           /\ r0' = r
           /\ IF n = 0
              THEN /\ ret' = last
                   /\ UNCHANGED <<pc, loc>>
              ELSE IF n >= last - first
              THEN /\ ret' = first
                   /\ UNCHANGED <<pc, loc>>
              ELSE /\ pc' = "ShiftRight"
                   /\ loc' = [i |-> last - 1, written |-> {},
                              clobbered |-> FALSE]
                   /\ UNCHANGED ret
    /\ UNCHANGED r

\* One iteration of the loop of ShiftRight.
ShiftRightIter ==
    /\ pc = "ShiftRight"
    /\ loc.i >= args.first + args.n
    /\ LET st == ShiftRightBody([r |-> r, i |-> loc.i, written |-> loc.written,
                                clobbered |-> loc.clobbered], args.n)
       IN  /\ r' = st.r
           /\ loc' = [i |-> st.i, written |-> st.written,
                      clobbered |-> st.clobbered]
    /\ UNCHANGED <<op, pc, args, r0, ret>>

\* The loop of ShiftRight is over: return last.
ShiftRightReturn ==
    /\ pc = "ShiftRight"
    /\ ~(loc.i >= args.first + args.n)
    /\ ret' = args.last
    /\ pc' = "idle"
    /\ UNCHANGED <<r, op, args, r0, loc>>

NextShift ==
    \/ CallShiftLeft
    \/ CallShiftRight
    \/ ShiftRightIter
    \/ ShiftRightReturn

SpecShift == Init /\ [][NextShift]_vars

\* The caller calls Reverse(r, first, last) on a valid range; Reverse returns
\* nothing.
CallReverse ==
    /\ Fresh
    /\ \E first \in 0..SliceLen(r) :
         \E last \in first..SliceLen(r) :
           /\ op' = "Reverse"
           /\ args' = [first |-> first, last |-> last]
           /\ r0' = r
           /\ r' = Reverse(r, first, last)
    /\ UNCHANGED <<pc, loc, ret>>

\* The caller calls ReverseCopy(r, r2, first, last, d_first) with r2 another
\* slice that holds last - first elements from d_first. loc.r2 is r2 after
\* the call.
CallReverseCopy ==
    /\ Fresh
    /\ SliceLen(r) <= MaxLen1
    /\ \E first \in 0..SliceLen(r), r2 \in Buffers :
         \E last \in first..SliceLen(r), d_first \in 0..SliceLen(r2) :
           /\ d_first + (last - first) <= SliceLen(r2)
           /\ LET out == ReverseCopy(Mem2(r, r2), "r1", "r2", first, last, d_first)
              IN  /\ op' = "ReverseCopy"
                  /\ args' = [first |-> first, last |-> last, r2 |-> r2,
                              d_first |-> d_first]
                  /\ r0' = r
                  /\ r' = out.m["r1"]
                  /\ loc' = [r2 |-> out.m["r2"]]
                  /\ ret' = out.ret
    /\ UNCHANGED pc

NextReverse == CallReverse \/ CallReverseCopy

SpecReverse == Init /\ [][NextReverse]_vars

\* The caller calls PartitionCopy(r, r2, first, last, d_first_true,
\* d_first_false, p) with r2 another slice; the two destination ranges fit in
\* r2 and do not overlap. loc.r2 is r2 after the call.
CallPartitionCopy ==
    /\ Fresh
    /\ SliceLen(r) <= MaxLen1
    /\ \E first \in 0..SliceLen(r), r2 \in Buffers, p \in Preds :
         \E last \in first..SliceLen(r),
            d_first_true \in 0..SliceLen(r2), d_first_false \in 0..SliceLen(r2) :
           LET nt == Cardinality({j \in first..(last - 1) : r[j] \in p})
               nf == (last - first) - nt
               out == PartitionCopy(Mem2(r, r2), "r1", "r2", first, last,
                                    d_first_true, d_first_false, p)
           IN  /\ d_first_true + nt <= SliceLen(r2)
               /\ d_first_false + nf <= SliceLen(r2)
               /\ \/ d_first_true + nt <= d_first_false
                  \/ d_first_false + nf <= d_first_true
               /\ op' = "PartitionCopy"
               /\ args' = [first |-> first, last |-> last, r2 |-> r2,
                           d_first_true |-> d_first_true,
                           d_first_false |-> d_first_false, p |-> p]
               /\ r0' = r
               /\ r' = out.m["r1"]
               /\ loc' = [r2 |-> out.m["r2"]]
               /\ ret' = out.ret
    /\ UNCHANGED pc

NextPartitionCopy == CallPartitionCopy

SpecPartitionCopy == Init /\ [][NextPartitionCopy]_vars

\* The caller calls AdjacentFind(r, first, last) on a valid range. loc.reads
\* is the set of positions the call read.
CallAdjacentFind ==
    /\ Fresh
    /\ \E first \in 0..SliceLen(r) :
         \E last \in first..SliceLen(r) :
           LET out == AdjacentFind(r, first, last)
           IN  /\ op' = "AdjacentFind"
               /\ args' = [first |-> first, last |-> last, p |-> Equality]
               /\ r0' = r
               /\ ret' = out.ret
               /\ loc' = [reads |-> out.reads]
    /\ UNCHANGED <<r, pc>>

\* The caller calls AdjacentFindFunc(r, first, last, p) on a valid range.
CallAdjacentFindFunc ==
    /\ Fresh
    /\ \E first \in 0..SliceLen(r), p \in BinPreds :
         \E last \in first..SliceLen(r) :
           LET out == AdjacentFindFunc(r, first, last, p)
           IN  /\ op' = "AdjacentFindFunc"
               /\ args' = [first |-> first, last |-> last, p |-> p]
               /\ r0' = r
               /\ ret' = out.ret
               /\ loc' = [reads |-> out.reads]
    /\ UNCHANGED <<r, pc>>

\* The caller calls Find(r, first, last, value) on a valid range.
CallFind ==
    /\ Fresh
    /\ \E first \in 0..SliceLen(r), value \in Vals :
         \E last \in first..SliceLen(r) :
           /\ op' = "Find"
           /\ args' = [first |-> first, last |-> last, value |-> value]
           /\ r0' = r
           /\ ret' = Find(r, first, last, value)
    /\ UNCHANGED <<r, pc, loc>>

\* The caller calls FindIf(r, first, last, p) on a valid range.
CallFindIf ==
    /\ Fresh
    /\ \E first \in 0..SliceLen(r), p \in Preds :
         \E last \in first..SliceLen(r) :
           /\ op' = "FindIf"
           /\ args' = [first |-> first, last |-> last, p |-> p]
           /\ r0' = r
           /\ ret' = FindIf(r, first, last, p)
    /\ UNCHANGED <<r, pc, loc>>

\* The caller calls AllOf(r, first, last, p) on a valid range.
CallAllOf ==
    /\ Fresh
    /\ \E first \in 0..SliceLen(r), p \in Preds :
         \E last \in first..SliceLen(r) :
           /\ op' = "AllOf"
           /\ args' = [first |-> first, last |-> last, p |-> p]
           /\ r0' = r
           /\ ret' = AllOf(r, first, last, p)
    /\ UNCHANGED <<r, pc, loc>>

\* The caller calls AnyOf(r, first, last, p) on a valid range.
CallAnyOf ==
    /\ Fresh
    /\ \E first \in 0..SliceLen(r), p \in Preds :
         \E last \in first..SliceLen(r) :
           /\ op' = "AnyOf"
           /\ args' = [first |-> first, last |-> last, p |-> p]
           /\ r0' = r
           /\ ret' = AnyOf(r, first, last, p)
    /\ UNCHANGED <<r, pc, loc>>

\* The caller calls NoneOf(r, first, last, p) on a valid range.
CallNoneOf ==
    /\ Fresh
    /\ \E first \in 0..SliceLen(r), p \in Preds :
         \E last \in first..SliceLen(r) :
           /\ op' = "NoneOf"
           /\ args' = [first |-> first, last |-> last, p |-> p]
           /\ r0' = r
           /\ ret' = NoneOf(r, first, last, p)
    /\ UNCHANGED <<r, pc, loc>>

NextFind ==
    \/ CallAdjacentFind
    \/ CallAdjacentFindFunc
    \/ CallFind
    \/ CallFindIf
    \/ CallAllOf
    \/ CallAnyOf
    \/ CallNoneOf

SpecFind == Init /\ [][NextFind]_vars

\* ------------------------------------------------------ calls step by step
\* The caller calls LowerBound(r, first, last, value) on a valid range and the
\* call runs one loop iteration per step.
RunLowerBound ==
    /\ Fresh
    /\ \E first \in 0..SliceLen(r), value \in Vals :
         \E last \in first..SliceLen(r) :
           /\ op' = "LowerBound"
           /\ args' = [first |-> first, last |-> last, value |-> value]
           /\ r0' = r
           /\ pc' = "LowerBound"
           /\ loc' = [first |-> first, last |-> last]
    /\ UNCHANGED <<r, ret>>

LowerBoundIter ==
    /\ pc = "LowerBound"
    /\ LowerBoundCond(loc)
    /\ loc' = LowerBoundBody(loc, r, args.value)
    /\ UNCHANGED <<r, op, pc, args, r0, ret>>

LowerBoundReturn ==
    /\ pc = "LowerBound"
    /\ ~LowerBoundCond(loc)
    /\ ret' = loc.last
    /\ pc' = "idle"
    /\ UNCHANGED <<r, op, args, r0, loc>>

\* UpperBound(r, first, last, value), one loop iteration per step.
RunUpperBound ==
    /\ Fresh
    /\ \E first \in 0..SliceLen(r), value \in Vals :
         \E last \in first..SliceLen(r) :
           /\ op' = "UpperBound"
           /\ args' = [first |-> first, last |-> last, value |-> value]
           /\ r0' = r
           /\ pc' = "UpperBound"
           /\ loc' = [first |-> first, last |-> last]
    /\ UNCHANGED <<r, ret>>

UpperBoundIter ==
    /\ pc = "UpperBound"
    /\ UpperBoundCond(loc)
    /\ loc' = UpperBoundBody(loc, r, args.value)
    /\ UNCHANGED <<r, op, pc, args, r0, ret>>

UpperBoundReturn ==
    /\ pc = "UpperBound"
    /\ ~UpperBoundCond(loc)
    /\ ret' = loc.last
    /\ pc' = "idle"
    /\ UNCHANGED <<r, op, args, r0, loc>>

\* PartitionPoint(r, first, last, p), one loop iteration per step.
RunPartitionPoint ==
    /\ Fresh
    /\ \E first \in 0..SliceLen(r), p \in Preds :
         \E last \in first..SliceLen(r) :
           /\ op' = "PartitionPoint"
           /\ args' = [first |-> first, last |-> last, p |-> p]
           /\ r0' = r
           /\ pc' = "PartitionPoint"
           /\ loc' = [first |-> first, length |-> last - first]
    /\ UNCHANGED <<r, ret>>

PartitionPointIter ==
    /\ pc = "PartitionPoint"
    /\ PartitionPointCond(loc)
    /\ loc' = PartitionPointBody(loc, r, args.p)
    /\ UNCHANGED <<r, op, pc, args, r0, ret>>

PartitionPointReturn ==
    /\ pc = "PartitionPoint"
    /\ ~PartitionPointCond(loc)
    /\ ret' = loc.first
    /\ pc' = "idle"
    /\ UNCHANGED <<r, op, args, r0, loc>>

\* Search(r, r2, first, last, s_first, s_last), one iteration of the inner
\* loop per step.
RunSearch ==
    /\ Fresh
    /\ SliceLen(r) <= MaxLen1
    /\ \E first \in 0..SliceLen(r), r2 \in Slices2 :
         \E last \in first..SliceLen(r), s_first \in 0..SliceLen(r2) :
           \E s_last \in s_first..SliceLen(r2) :
             /\ op' = "Search"
             /\ args' = [first |-> first, last |-> last, r2 |-> r2,
                         s_first |-> s_first, s_last |-> s_last]
             /\ r0' = r
             /\ pc' = "Search"
             /\ loc' = [first |-> first, it |-> first, s_it |-> s_first]
    /\ UNCHANGED <<r, ret>>

SearchIter ==
    /\ pc = "Search"
    /\ ~SearchReturns(loc, args.last, args.s_last)
    /\ loc' = SearchBody(loc, r, args.r2, args.s_first)
    /\ UNCHANGED <<r, op, pc, args, r0, ret>>

SearchReturn ==
    /\ pc = "Search"
    /\ SearchReturns(loc, args.last, args.s_last)
    /\ ret' = SearchResult(loc, args.last, args.s_last)
    /\ pc' = "idle"
    /\ UNCHANGED <<r, op, args, r0, loc>>

\* SearchN(r, first, last, count, value): the early return for count <= 0, or
\* the entry of the outer loop; then one step per loop test.
RunSearchN ==
    /\ Fresh
    /\ \E first \in 0..SliceLen(r), count \in Counts, value \in Vals :
         \E last \in first..SliceLen(r) :
           /\ op' = "SearchN"
           /\ args' = [first |-> first, last |-> last, count |-> count,
                       value |-> value]
           /\ r0' = r
           /\ IF count <= 0
              THEN /\ ret' = first
                   /\ UNCHANGED <<pc, loc>>
              ELSE /\ pc' = "SearchN"
                   /\ loc' = [first |-> first, inner |-> FALSE,
                              candidate |-> first, cur_count |-> 0]
                   /\ UNCHANGED ret
    /\ UNCHANGED r

SearchNIter ==
    /\ pc = "SearchN"
    /\ ~SearchNReturns(loc, args.last, args.count)
    /\ loc' = SearchNBody(loc, r, args.value)
    /\ UNCHANGED <<r, op, pc, args, r0, ret>>

SearchNReturn ==
    /\ pc = "SearchN"
    /\ SearchNReturns(loc, args.last, args.count)
    /\ ret' = SearchNResult(loc, args.last, args.count)
    /\ pc' = "idle"
    /\ UNCHANGED <<r, op, args, r0, loc>>

\* Rotate(r, first, middle, last): the two early returns, or the entry of the
\* swap loop of the outermost call.
RunRotate ==
    /\ Fresh
    /\ \E first \in 0..SliceLen(r) :
         \E last \in first..SliceLen(r) :
           \E middle \in first..last :
             /\ op' = "Rotate"
             /\ args' = [first |-> first, middle |-> middle, last |-> last]
             /\ r0' = r
             /\ IF first = middle
                THEN /\ ret' = last
                     /\ loc' = RotateEnter(first, middle, 1, 0, last)
                     /\ UNCHANGED pc
                ELSE IF middle = last
                THEN /\ ret' = first
                     /\ loc' = RotateEnter(first, middle, 1, 0, first)
                     /\ UNCHANGED pc
                ELSE /\ pc' = "Rotate"
                     /\ loc' = RotateEnter(first, middle, 1, 0, first)
                     /\ UNCHANGED ret
    /\ UNCHANGED r

\* One iteration of the swap loop of the innermost call of Rotate.
RotateIter ==
    /\ pc = "Rotate"
    /\ loc.read # args.last
    /\ LET out == RotateBody(loc, r)
       IN  /\ r' = out.r
           /\ loc' = out.st
    /\ UNCHANGED <<op, pc, args, r0, ret>>

\* The swap loop is over and Rotate(r, write, next_read, last) is called; the
\* call passes the two early returns and enters its own swap loop. The
\* outermost call will return its write.
RotateRecurse ==
    /\ pc = "Rotate"
    /\ loc.read = args.last
    /\ loc.write # loc.next_read
    /\ loc.next_read # args.last
    /\ loc' = RotateEnter(loc.write, loc.next_read, loc.depth + 1, loc.swaps,
                          IF loc.depth = 1 THEN loc.write ELSE loc.result)
    /\ UNCHANGED <<r, op, pc, args, r0, ret>>

\* The swap loop is over and Rotate(r, write, next_read, last) is called; the
\* call takes one of the two early returns, and so does every call above it:
\* the outermost returns its write.
RotateReturn ==
    /\ pc = "Rotate"
    /\ loc.read = args.last
    /\ loc.write = loc.next_read \/ loc.next_read = args.last
    /\ LET result == IF loc.depth = 1 THEN loc.write ELSE loc.result
       IN  /\ ret' = result
           /\ loc' = [loc EXCEPT !.depth = loc.depth + 1, !.result = result]
    /\ pc' = "idle"
    /\ UNCHANGED <<r, op, args, r0>>

\* Rotate alone, one swap or one recursive call per step.
NextRotateRun ==
    \/ RunRotate
    \/ RotateIter
    \/ RotateRecurse
    \/ RotateReturn

SpecRotateRun == Init /\ [][NextRotateRun]_vars

\* The steps of a running call.
RunSteps ==
    \/ LowerBoundIter
    \/ LowerBoundReturn
    \/ UpperBoundIter
    \/ UpperBoundReturn
    \/ PartitionPointIter
    \/ PartitionPointReturn
    \/ SearchIter
    \/ SearchReturn
    \/ SearchNIter
    \/ SearchNReturn
    \/ RotateIter
    \/ RotateRecurse
    \/ RotateReturn

NextRun ==
    \/ RunLowerBound
    \/ RunUpperBound
    \/ RunPartitionPoint
    \/ RunSearch
    \/ RunSearchN
    \/ RunRotate
    \/ RunSteps

\* A call that has started keeps executing: its next step is taken.
SpecRun == Init /\ [][NextRun]_vars /\ WF_vars(RunSteps)

\* The calls of the functions that take one range of r and no second slice or
\* shift count: the ones whose empty-range behaviour is specified together.
NextDegenerate ==
    \/ CallFind
    \/ CallFindIf
    \/ CallAllOf
    \/ CallAnyOf
    \/ CallNoneOf
    \/ CallAdjacentFind
    \/ CallLowerBound
    \/ CallUpperBound
    \/ CallPartitionPoint
    \/ CallSearchN
    \/ CallRemove
    \/ CallUnique
    \/ CallPartition
    \/ PartitionIter
    \/ PartitionReturn
    \/ CallReverse
    \/ CallRotate

SpecDegenerate == Init /\ [][NextDegenerate]_vars

\* The start of UniqueCopy and UniqueCopyFunc: the early return for an empty
\* range, or the first write r2[d_first] = r1[first] and the entry of the loop
\* with first++. loc.r2 is r2 as the call sees it.
UniqueCopyStart(name, alias, r2, first, last, d_first, p) ==
    LET b == AliasName(alias)
        m == AliasMem(alias, r, r2)
        m1 == [m EXCEPT ![b] = [@ EXCEPT ![d_first] = m["r1"][first]]]
    IN  /\ op' = name
        /\ args' = [first |-> first, last |-> last, r2 |-> r2,
                    d_first |-> d_first, alias |-> alias, p |-> p]
        /\ r0' = r
        /\ IF first = last
           THEN /\ ret' = d_first
                /\ loc' = [first |-> first, d_first |-> d_first,
                           overwrote |-> FALSE, r2 |-> r2]
                /\ UNCHANGED <<r, pc>>
           ELSE /\ r' = m1["r1"]
                /\ loc' = [first |-> first + 1, d_first |-> d_first,
                           overwrote |-> alias /\ d_first > first, r2 |-> m1[b]]
                /\ pc' = "UniqueCopy"
                /\ UNCHANGED ret

\* The caller calls UniqueCopy(r, r, first, last, first), or
\* UniqueCopy(r, r2, first, last, d_first) with r2 another slice that holds
\* last - first elements from d_first.
RunUniqueCopy ==
    /\ Fresh
    /\ \/ \E first \in 0..SliceLen(r) :
            \E last \in first..SliceLen(r) :
              UniqueCopyStart("UniqueCopy", TRUE, r, first, last, first, Equality)
       \/ /\ SliceLen(r) <= MaxLen1
          /\ \E first \in 0..SliceLen(r), r2 \in Buffers :
               \E last \in first..SliceLen(r), d_first \in 0..SliceLen(r2) :
                 /\ d_first + (last - first) <= SliceLen(r2)
                 /\ UniqueCopyStart("UniqueCopy", FALSE, r2, first, last, d_first,
                                    Equality)

\* The same calls of UniqueCopyFunc with a binary predicate p.
RunUniqueCopyFunc ==
    /\ Fresh
    /\ \E p \in BinPreds :
         \/ \E first \in 0..SliceLen(r) :
              \E last \in first..SliceLen(r) :
                UniqueCopyStart("UniqueCopyFunc", TRUE, r, first, last, first, p)
         \/ /\ SliceLen(r) <= MaxLen1
            /\ \E first \in 0..SliceLen(r), r2 \in Buffers :
                 \E last \in first..SliceLen(r), d_first \in 0..SliceLen(r2) :
                   /\ d_first + (last - first) <= SliceLen(r2)
                   /\ UniqueCopyStart("UniqueCopyFunc", FALSE, r2, first, last,
                                      d_first, p)

\* One iteration of the loop of UniqueCopy or UniqueCopyFunc.
UniqueCopyIter ==
    /\ pc = "UniqueCopy"
    /\ loc.first # args.last
    /\ LET b == AliasName(args.alias)
           out == UniqueCopyBody([first |-> loc.first, d_first |-> loc.d_first,
                                  overwrote |-> loc.overwrote],
                                 AliasMem(args.alias, r, loc.r2), b, args.p)
       IN  /\ r' = out.m["r1"]
           /\ loc' = [first |-> out.st.first, d_first |-> out.st.d_first,
                      overwrote |-> out.st.overwrote, r2 |-> out.m[b]]
    /\ UNCHANGED <<op, pc, args, r0, ret>>

\* The loop is over: return d_first + 1.
UniqueCopyReturn ==
    /\ pc = "UniqueCopy"
    /\ loc.first = args.last
    /\ ret' = loc.d_first + 1
    /\ pc' = "idle"
    /\ UNCHANGED <<r, op, args, r0, loc>>

NextUniqueCopy ==
    \/ RunUniqueCopy
    \/ RunUniqueCopyFunc
    \/ UniqueCopyIter
    \/ UniqueCopyReturn

SpecUniqueCopy == Init /\ [][NextUniqueCopy]_vars

\* Every call of the library.
Next ==
    \/ NextRemove
    \/ NextRotate
    \/ NextPartition
    \/ NextUnique
    \/ NextBound
    \/ NextSearch
    \/ NextMatch
    \/ NextShift
    \/ NextReverse
    \/ NextPartitionCopy
    \/ NextFind
    \/ NextRun
    \/ NextUniqueCopy

Spec == Init /\ [][Next]_vars

\* ------------------------------------------------------------------ claims
\* The elements of r0[first, last) that differ from value, in order.
Survivors(s, first, last, value) ==
    SelectSeq(RangeSeq(s, first, last), LAMBDA x : x # value)

\* C1: Remove returns first + k, k the number of elements of the original
\* range that differ from value, and r[first, first+k) holds exactly those
\* elements in their original order.
C1_RemoveCompactsSurvivors ==
    (op = "Remove") =>
        LET keep == Survivors(r0, args.first, args.last, args.value)
        IN  /\ ret = args.first + Len(keep)
            /\ RangeSeq(r, args.first, ret) = keep

\* C2: RemoveIf returns first + k, k the number of elements of the original
\* range for which p is false, r[first, first+k) holds exactly those elements
\* in their original order, and at most last-first element writes are made.
C2_RemoveIfCompactsSurvivors ==
    (op = "RemoveIf") =>
        LET keep == SelectSeq(RangeSeq(r0, args.first, args.last),
                              LAMBDA x : ~(x \in args.p))
        IN  /\ ret = args.first + Len(keep)
            /\ RangeSeq(r, args.first, ret) = keep
            /\ loc.writes <= args.last - args.first

\* A RemoveIf call that dropped an element and moved a later survivor left.
C2_Witness ==
    /\ op = "RemoveIf"
    /\ loc.writes > 0
    /\ ret < args.last
    /\ r # r0

\* The elements of s[first, last) are pairwise distinct.
Distinct(s, first, last) ==
    \A j, k \in first..(last - 1) : j # k => s[j] # s[k]

\* C3: after Rotate the range is the original r[middle, last) followed by the
\* original r[first, middle), the call returns first + (last - middle), and
\* first = middle or middle = last leave r unchanged.
C3_RotateSwapsBlocks ==
    (op = "Rotate") =>
        /\ RangeSeq(r, args.first, args.last) =
               RangeSeq(r0, args.middle, args.last)
                   \o RangeSeq(r0, args.first, args.middle)
        /\ ret = args.first + (args.last - args.middle)
        /\ (args.first = args.middle => ret = args.last /\ r = r0)
        /\ (args.middle = args.last => ret = args.first /\ r = r0)

\* A Rotate call with two non-empty blocks of different lengths that recursed
\* on the remainder.
C3_Witness ==
    /\ op = "Rotate"
    /\ args.first < args.middle
    /\ args.middle < args.last
    /\ args.middle - args.first # args.last - args.middle
    /\ loc.depth > 2
    /\ r # r0

\* C4 as stated: the element at r[ret] after the call is the element that was
\* at r[middle] before it.
C4_RetHoldsOldMiddle ==
    (/\ op = "Rotate"
     /\ args.first < args.middle
     /\ args.middle < args.last
     /\ Distinct(r0, args.first, args.last)) => r[ret] = r0[args.middle]

\* C4 amended: for pairwise distinct elements and first < middle < last, the
\* element at r[ret] after the call is the element that was at r[first] before
\* it, and the element that was at r[middle] is at r[first].
C4_RetHoldsOldFirst ==
    (/\ op = "Rotate"
     /\ args.first < args.middle
     /\ args.middle < args.last
     /\ Distinct(r0, args.first, args.last)) =>
        /\ r[ret] = r0[args.first]
        /\ r[args.first] = r0[args.middle]

\* A Rotate of three pairwise distinct elements.
C4_Witness ==
    /\ op = "Rotate"
    /\ args.first < args.middle
    /\ args.middle < args.last
    /\ args.last - args.first >= 3
    /\ Distinct(r0, args.first, args.last)

\* C5: rotating the result back with Rotate(r, first, ret, last) restores the
\* original slice element for element.
C5_RotateBackRestores ==
    (op = "Rotate") => Rotate(r, args.first, ret, args.last).r = r0

\* A Rotate call that changed the slice, so that rotating back has work to do.
C5_Witness ==
    /\ op = "Rotate"
    /\ args.first < args.middle
    /\ args.middle < args.last
    /\ r # r0
    /\ Rotate(r, args.first, ret, args.last).r # r

\* C6: Partition returns pp with first <= pp <= last, every element of
\* r[first, pp) satisfies p, every element of r[pp, last) fails p, and
\* IsPartitioned on the result returns true.
C6_PartitionGroups ==
    (op = "Partition" /\ pc = "idle") =>
        /\ args.first <= ret
        /\ ret <= args.last
        /\ \A j \in args.first..(ret - 1) : r[j] \in args.p
        /\ \A j \in ret..(args.last - 1) : ~(r[j] \in args.p)
        /\ IsPartitioned(r, args.first, args.last, args.p)

\* A Partition call that returned after swapping, with both groups non-empty.
C6_Witness ==
    /\ op = "Partition"
    /\ pc = "idle"
    /\ r # r0
    /\ args.first < ret
    /\ ret < args.last
    /\ ~IsPartitioned(r0, args.first, args.last, args.p)

\* C7: before the call, after every swap step and after the call the bag of
\* elements of r[first, last) is the bag of the original range, and every
\* position outside [first, last) keeps its element.
C7_PartitionPermutes ==
    (op = "Partition") =>
        /\ RangeBag(r, args.first, args.last) = RangeBag(r0, args.first, args.last)
        /\ OutsideUnchanged(r, r0, args.first, args.last)

\* Partition is in its loop, has swapped two different elements and has more
\* iterations to go, on a range that is not the whole slice.
C7_Witness ==
    /\ op = "Partition"
    /\ pc = "Partition"
    /\ r # r0
    /\ loc.i # args.last
    /\ SliceLen(r) > args.last - args.first

\* The first member of every maximal run of consecutive equal elements of the
\* sequence q, in order.
RECURSIVE RunHeads(_)
RunHeads(q) ==
    IF Len(q) <= 1 THEN q
    ELSE LET h == RunHeads(SubSeq(q, 1, Len(q) - 1))
         IN  IF q[Len(q)] # q[Len(q) - 1] THEN Append(h, q[Len(q)]) ELSE h

\* C8: Unique returns first + g, g the number of maximal runs of consecutive
\* equal elements of the original range, r[first, first+g) holds the first
\* member of each run in order, no two adjacent elements of it are equal, and
\* an empty range returns last and changes nothing.
C8_UniqueKeepsRunHeads ==
    (op = "Unique") =>
        LET heads == RunHeads(RangeSeq(r0, args.first, args.last))
        IN  /\ ret = args.first + Len(heads)
            /\ RangeSeq(r, args.first, ret) = heads
            /\ \A j \in args.first..(ret - 2) : r[j] # r[j + 1]
            /\ (args.first = args.last => ret = args.last /\ r = r0)

\* A Unique call that collapsed a run and moved a later run head left, where an
\* element equal to an earlier run head comes back later in the range.
C8_Witness ==
    /\ op = "Unique"
    /\ r # r0
    /\ ret - args.first >= 3
    /\ ret < args.last
    /\ r[args.first] = r[args.first + 2]

\* C9: a second call Unique(r, first, e) on the result of e = Unique(r, first,
\* last) returns e and leaves every element unchanged.
C9_UniqueIdempotent ==
    (op = "Unique") =>
        LET again == Unique(r, args.first, ret)
        IN  /\ again.ret = ret
            /\ again.r = r

\* A Unique call that removed elements, so that the second call runs on a
\* shorter range of at least two elements.
C9_Witness ==
    /\ op = "Unique"
    /\ r # r0
    /\ ret < args.last
    /\ ret - args.first >= 2

\* r[first, last) is sorted ascending.
IsSortedRange(s, first, last) ==
    \A j \in first..(last - 2) : s[j] <= s[j + 1]

\* The smallest position of [first, last] that is last or holds an element that
\* is not less than value.
FirstNotLess(s, first, last, value) ==
    CHOOSE i \in first..last :
        /\ i = last \/ ~(s[i] < value)
        /\ \A j \in first..(i - 1) : s[j] < value

\* C10: on a range sorted ascending LowerBound returns the smallest position i
\* of [first, last] such that r[i] is not less than value (last if every
\* element is less), and LowerBoundFunc with comp = less-than returns the same
\* position.
C10_LowerBoundFirstNotLess ==
    (/\ op \in {"LowerBound", "LowerBoundFunc"}
     /\ op = "LowerBoundFunc" => args.comp = LessThan
     /\ IsSortedRange(r0, args.first, args.last)) =>
        /\ ret = FirstNotLess(r0, args.first, args.last, args.value)
        /\ LowerBound(r0, args.first, args.last, args.value) =
               LowerBoundFunc(r0, args.first, args.last, args.value, LessThan)

\* The smallest position of [first, last] that is last or holds an element that
\* is greater than value.
FirstGreater(s, first, last, value) ==
    CHOOSE i \in first..last :
        /\ i = last \/ s[i] > value
        /\ \A j \in first..(i - 1) : ~(s[j] > value)

\* C11: on a range sorted ascending UpperBound returns the smallest position i
\* of [first, last] such that r[i] is greater than value (last if no element
\* is greater), and UpperBoundFunc with comp = less-than returns the same
\* position.
C11_UpperBoundFirstGreater ==
    (/\ op \in {"UpperBound", "UpperBoundFunc"}
     /\ op = "UpperBoundFunc" => args.comp = LessThan
     /\ IsSortedRange(r0, args.first, args.last)) =>
        /\ ret = FirstGreater(r0, args.first, args.last, args.value)
        /\ UpperBound(r0, args.first, args.last, args.value) =
               UpperBoundFunc(r0, args.first, args.last, args.value, LessThan)

\* C12: on a range sorted ascending every element at a position of
\* [LowerBound, UpperBound) equals value and no element of r[first, last)
\* outside that interval equals value.
C12_BoundsEncloseEqualRun ==
    (/\ op = "UpperBound"
     /\ IsSortedRange(r0, args.first, args.last)) =>
        LET lb == LowerBound(r0, args.first, args.last, args.value)
        IN  \A j \in args.first..(args.last - 1) :
                (lb <= j /\ j < ret) <=> r0[j] = args.value

\* C13: on a range sorted ascending, empty and one-element ranges included,
\* LowerBound <= UpperBound and both results lie in [first, last].
C13_LowerNotAboveUpper ==
    (/\ op = "UpperBound"
     /\ IsSortedRange(r0, args.first, args.last)) =>
        LET lb == LowerBound(r0, args.first, args.last, args.value)
        IN  /\ lb <= ret
            /\ args.first <= lb /\ lb <= args.last
            /\ args.first <= ret /\ ret <= args.last

\* A sorted range of at least three elements in which value occurs, on which
\* the two results differ.
C13_Witness ==
    /\ op = "UpperBound"
    /\ IsSortedRange(r0, args.first, args.last)
    /\ args.last - args.first >= 3
    /\ \E j \in args.first..(args.last - 1) : r0[j] = args.value
    /\ LowerBound(r0, args.first, args.last, args.value) < ret

\* The least element of a non-empty set of positions.
MinPos(S) == CHOOSE i \in S : \A j \in S : i <= j

\* The positions i of [first, last] at which s2[s_first, s_last) occurs in
\* s1[first, last): it fits before last and matches element for element.
Occurrences(s1, s2, first, last, s_first, s_last) ==
    {i \in first..last :
        /\ i + (s_last - s_first) <= last
        /\ \A j \in 0..(s_last - s_first - 1) : s1[i + j] = s2[s_first + j]}

\* C14: Search returns the smallest position i of [first, last] such that
\* i + (s_last - s_first) <= last and r1[i+j] = r2[s_first+j] for every j, last
\* when there is none, and first when the pattern is empty.
C14_SearchFirstOccurrence ==
    (op = "Search") =>
        LET occ == Occurrences(r0, args.r2, args.first, args.last,
                               args.s_first, args.s_last)
        IN  /\ ret = IF occ = {} THEN args.last ELSE MinPos(occ)
            /\ (args.s_first = args.s_last => ret = args.first)

\* A Search that gave up a partial match at first and found the pattern of two
\* elements at a later position.
C14_Witness ==
    /\ op = "Search"
    /\ args.s_last - args.s_first >= 2
    /\ args.first < ret
    /\ ret < args.last
    /\ r0[args.first] = args.r2[args.s_first]

\* The slice [4,4,4,1,4,4] of the first scenario of SearchN.
Scenario1 == [j \in 0..5 |-> IF j = 3 THEN 1 ELSE 4]
\* The slice [4,4,1,1] of the second scenario of SearchN.
Scenario2 == [j \in 0..3 |-> IF j < 2 THEN 4 ELSE 1]

\* The positions i at which a run of count elements equal to value starts and
\* fits before last.
Runs(s, first, last, count, value) ==
    {i \in first..last :
        /\ i + count <= last
        /\ \A j \in 0..(count - 1) : s[i + j] = value}

\* C15: SearchN returns first when count <= 0; otherwise the smallest position
\* i with i + count <= last such that r[i, i+count) all equal value, and last
\* when there is no such run; on [4,4,4,1,4,4] with count 3 and value 4 it
\* returns 0 and on [4,4,1,1] with count 3 and value 4 it returns 4.
C15_SearchNFirstRun ==
    (op = "SearchN") =>
        LET runs == Runs(r0, args.first, args.last, args.count, args.value)
        IN  /\ (args.count <= 0 => ret = args.first)
            /\ (args.count > 0 =>
                    ret = IF runs = {} THEN args.last ELSE MinPos(runs))
            /\ SearchN(Scenario1, 0, 6, 3, 4) = 0
            /\ SearchN(Scenario2, 0, 4, 3, 4) = 4

\* A SearchN that abandoned a shorter run at first and found a run of count
\* elements later.
C15_Witness ==
    /\ op = "SearchN"
    /\ args.count >= 2
    /\ args.first < ret
    /\ ret < args.last
    /\ r0[args.first] = args.value

\* The smallest offset k of 0..n at which s1[first1+k] and s2[first2+k] differ,
\* n if they agree on all n offsets.
FirstDifference(s1, s2, first1, first2, n) ==
    CHOOSE k \in 0..n :
        /\ k = n \/ s1[first1 + k] # s2[first2 + k]
        /\ \A j \in 0..(k - 1) : s1[first1 + j] = s2[first2 + j]

\* The smaller of two lengths.
Shorter(m, n) == IF m <= n THEN m ELSE n

\* C16: Mismatch returns the pair (first1+k, first2+k), k the smallest offset
\* with r1[first1+k] # r2[first2+k] or last1-first1 if there is none; Mismatch2
\* the same with k capped at last2-first2; both return what MismatchFunc and
\* MismatchFunc2 return with the equality predicate.
C16_MismatchFirstDifference ==
    /\ (op = "Mismatch") =>
           LET k == FirstDifference(r0, args.r2, args.first1, args.first2,
                                    args.last1 - args.first1)
           IN  /\ ret = Returned(args.first1 + k, args.first2 + k)
               /\ ret = MismatchFunc(r0, args.r2, args.first1, args.last1,
                                     args.first2, Equality)
    /\ (op = "Mismatch2") =>
           LET k == FirstDifference(r0, args.r2, args.first1, args.first2,
                                    Shorter(args.last1 - args.first1,
                                            args.last2 - args.first2))
           IN  /\ ret = Returned(args.first1 + k, args.first2 + k)
               /\ ret = MismatchFunc2(r0, args.r2, args.first1, args.last1,
                                      args.first2, args.last2, Equality)

\* C17: Equal2 and EqualFunc2 return true if and only if the two ranges have
\* the same length and every paired element compares equal (satisfies p).
C17_Equal2NeedsEqualLengths ==
    (op \in {"Equal2", "EqualFunc2"}) =>
        (ret <=>
            /\ args.last1 - args.first1 = args.last2 - args.first2
            /\ \A j \in 0..(args.last1 - args.first1 - 1) :
                   <<r0[args.first1 + j], args.r2[args.first2 + j]>> \in args.p)

\* C18: on a range partitioned by p, PartitionPoint returns the position of the
\* first element that does not satisfy p (last if all do), which is what
\* FindIfNot returns, and leaves r unchanged.
C18_PartitionPointIsFindIfNot ==
    (op = "PartitionPoint" /\ IsPartitioned(r0, args.first, args.last, args.p)) =>
        /\ ret = FindIfNot(r0, args.first, args.last, args.p)
        /\ args.first <= ret
        /\ ret <= args.last
        /\ \A j \in args.first..(ret - 1) : r0[j] \in args.p
        /\ (ret < args.last) => ~(r0[ret] \in args.p)
        /\ r = r0

\* PartitionPoint was called on [true, true, false, false] and returned 2.
C18_Witness ==
    /\ op = "PartitionPoint"
    /\ args.first = 0
    /\ args.last = 4
    /\ SliceLen(r0) = 4
    /\ \A j \in 0..3 : (r0[j] \in args.p) <=> (j < 2)
    /\ ret = 2

\* C19: after ShiftLeft with 0 < n < last - first the element originally at
\* first + n + i is at first + i for every i of [0, last - first - n) and the
\* call returns first + (last - first - n); with n = 0 or n >= last - first
\* the slice is unchanged.
C19_ShiftLeftMovesDown ==
    (op = "ShiftLeft") =>
        IF 0 < args.n /\ args.n < args.last - args.first
        THEN /\ \A i \in 0..(args.last - args.first - args.n - 1) :
                    r[args.first + i] = r0[args.first + args.n + i]
             /\ ret = args.first + (args.last - args.first - args.n)
        ELSE r = r0

\* ShiftLeft moved at least two elements by at least two positions over the
\* places it read from, and changed the slice.
C19_Witness ==
    /\ op = "ShiftLeft"
    /\ 1 < args.n
    /\ args.last - args.first - args.n >= 2
    /\ ret = args.last - args.n
    /\ r # r0

\* C20: ShiftRight with 0 < n < last - first writes from last - 1 downward and
\* never reads a position it has already written, so on return the element
\* originally at first + i is at first + n + i for every i of
\* [0, last - first - n); with n = 0 or n >= last - first the slice is
\* unchanged.
C20_ShiftRightReadsBeforeWrite ==
    (op = "ShiftRight") =>
        IF 0 < args.n /\ args.n < args.last - args.first
        THEN /\ (pc = "ShiftRight") =>
                    /\ ~loc.clobbered
                    /\ loc.written = (loc.i + 1)..(args.last - 1)
                    /\ \A j \in DOMAIN r : j \notin loc.written => r[j] = r0[j]
                    /\ (loc.i >= args.first + args.n) =>
                           (loc.i - args.n) \notin loc.written
             /\ (pc = "idle") =>
                    /\ ~loc.clobbered
                    /\ \A i \in 0..(args.last - args.first - args.n - 1) :
                           r[args.first + args.n + i] = r0[args.first + i]
        ELSE pc = "idle" /\ r = r0

\* ShiftRight returned after moving at least two elements over positions it
\* had to read from, and changed the slice.
C20_Witness ==
    /\ op = "ShiftRight"
    /\ pc = "idle"
    /\ 0 < args.n
    /\ args.n < args.last - args.first
    /\ args.last - args.first - args.n >= 2
    /\ args.n < args.last - args.first - args.n
    /\ r # r0

\* C21: Reverse called a second time on the same range gives back the original
\* slice; ReverseCopy into another slice followed by ReverseCopy of that
\* destination range into a third slice reproduces the original range, and
\* the source is untouched.
C21_ReverseTwiceRestores ==
    /\ (op = "Reverse") => Reverse(r, args.first, args.last) = r0
    /\ (op = "ReverseCopy") =>
           LET n == args.last - args.first
           IN  /\ r = r0
               /\ \A third \in Buffers :
                      (n <= SliceLen(third)) =>
                          LET back == ReverseCopy(Mem2(loc.r2, third), "r1", "r2",
                                                  args.d_first, args.d_first + n, 0)
                          IN  /\ RangeSeq(back.m["r2"], 0, n)
                                     = RangeSeq(r0, args.first, args.last)
                              /\ back.m["r1"] = loc.r2

\* Reverse changed a range of at least three elements.
C21_Witness ==
    /\ op = "Reverse"
    /\ args.last - args.first >= 3
    /\ r # r0
    /\ r[args.first] = r0[args.last - 1]
    /\ r[args.first] # r0[args.first]

\* The elements of the sequence s that are in the set keep, in their order.
Kept(s, keep) ==
    LET Test(x) == x \in keep
    IN  SelectSeq(s, Test)

\* C22: PartitionCopy writes the elements of r1[first, last) that satisfy p, in
\* their order, from d_first_true and the others, in their order, from
\* d_first_false, returns the pair of the two positions past what it wrote,
\* and leaves the source unchanged.
C22_PartitionCopySplitsInOrder ==
    (op = "PartitionCopy") =>
        LET src == RangeSeq(r0, args.first, args.last)
            trues == Kept(src, args.p)
            falses == Kept(src, Vals \ args.p)
        IN  /\ ret = MakePair(args.d_first_true + Len(trues),
                              args.d_first_false + Len(falses))
            /\ RangeSeq(loc.r2, args.d_first_true, ret.first) = trues
            /\ RangeSeq(loc.r2, args.d_first_false, ret.second) = falses
            /\ r = r0

\* PartitionCopy copied two different elements that satisfy p and one that
\* does not.
C22_Witness ==
    /\ op = "PartitionCopy"
    /\ ret.first - args.d_first_true >= 2
    /\ ret.second - args.d_first_false >= 1
    /\ loc.r2[args.d_first_true] # loc.r2[args.d_first_true + 1]
    /\ loc.r2 # args.r2

\* The positions i of [first, last - 1) whose element and the next one are
\* related by p.
AdjacentPairs(s, first, last, p) ==
    {i \in first..(last - 2) : <<s[i], s[i + 1]>> \in p}

\* C23: AdjacentFind returns the smallest i with first <= i, i + 1 < last and
\* r[i] = r[i + 1] (AdjacentFindFunc: p(r[i], r[i + 1])), last if there is
\* none, so for every range of fewer than two elements; it reads no position
\* outside [first, last) and leaves r unchanged.
C23_AdjacentFindFirstPair ==
    (op \in {"AdjacentFind", "AdjacentFindFunc"}) =>
        LET pairs == AdjacentPairs(r0, args.first, args.last, args.p)
        IN  /\ ret = IF pairs = {} THEN args.last ELSE MinPos(pairs)
            /\ (args.last - args.first < 2) => ret = args.last
            /\ loc.reads \subseteq args.first..(args.last - 1)
            /\ r = r0

\* AdjacentFind found an equal pair that is neither the first nor the last
\* pair of the range.
C23_Witness ==
    /\ op = "AdjacentFind"
    /\ args.first < ret
    /\ ret + 2 < args.last
    /\ r0[ret] = r0[ret + 1]
    /\ r0[ret + 1] # r0[ret + 2]

\* The slice s with only the positions of [first, last): no other position can
\* be read. For an empty range it has no position at all.
OnlyRange(s, first, last) == [j \in first..(last - 1) |-> s[j]]

\* The functions that return a position, last when there is nothing to find.
SentinelOps ==
    {"Find", "FindIf", "AdjacentFind", "LowerBound", "UpperBound",
     "PartitionPoint", "SearchN", "Remove", "Unique", "Partition", "Rotate"}

\* C24: on an empty range (first = last, at any position of r) Find, FindIf,
\* AdjacentFind, LowerBound, UpperBound, PartitionPoint, SearchN, Remove,
\* Unique, Partition, Reverse and Rotate leave r unchanged and return last,
\* AllOf and NoneOf return true and AnyOf returns false; none reads an
\* element: each gives the same result on a slice that has no position to read.
C24_EmptyRangeIsNoOp ==
    (/\ op \in SentinelOps \cup {"Reverse", "AllOf", "AnyOf", "NoneOf"}
     /\ args.first = args.last) =>
        LET k == args.last
            e == OnlyRange(r0, k, k)
        IN  /\ pc = "idle"
            /\ r = r0
            /\ (op \in SentinelOps) => ret = k
            /\ (op \in {"AllOf", "NoneOf"}) => ret = TRUE
            /\ (op = "AnyOf") => ret = FALSE
            /\ (op = "Find") => Find(e, k, k, args.value) = k
            /\ (op = "FindIf") => FindIf(e, k, k, args.p) = k
            /\ (op = "AllOf") => AllOf(e, k, k, args.p)
            /\ (op = "AnyOf") => ~AnyOf(e, k, k, args.p)
            /\ (op = "NoneOf") => NoneOf(e, k, k, args.p)
            /\ (op = "AdjacentFind") =>
                   loc.reads = {} /\ AdjacentFind(e, k, k).ret = k
            /\ (op = "LowerBound") => LowerBound(e, k, k, args.value) = k
            /\ (op = "UpperBound") => UpperBound(e, k, k, args.value) = k
            /\ (op = "PartitionPoint") => PartitionPoint(e, k, k, args.p) = k
            /\ (op = "SearchN") => SearchN(e, k, k, args.count, args.value) = k
            /\ (op = "Remove") => Remove(e, k, k, args.value) = [r |-> e, ret |-> k]
            /\ (op = "Unique") => Unique(e, k, k) = [r |-> e, ret |-> k]
            /\ (op = "Partition") => FindIfNot(e, k, k, args.p) = k
            /\ (op = "Reverse") => Reverse(e, k, k) = e
            /\ (op = "Rotate") =>
                   /\ args.middle = k
                   /\ Rotate(e, k, k, k).r = e
                   /\ Rotate(e, k, k, k).ret = k
                   /\ Rotate(e, k, k, k).swaps = 0

\* AnyOf was called on an empty range in the middle of a slice that holds an
\* element satisfying p on each side of it.
C24_Witness ==
    /\ op = "AnyOf"
    /\ args.first = args.last
    /\ 0 < args.first
    /\ args.first < SliceLen(r0)
    /\ r0[args.first - 1] \in args.p
    /\ r0[args.first] \in args.p
    /\ ret = FALSE

\* C25: under correct usage (the first range valid in r1, the second valid in
\* r2) Mismatch and Mismatch2 index only inside the ranges passed to them, so
\* no call ends in an index-out-of-range panic.
C25_MismatchNeverPanics ==
    (op \in {"Mismatch", "Mismatch2"}) => ~ret.panic

\* The stepped calls return what the functions return and, for Rotate, count
\* the calls and swaps the function makes.
RunAgrees ==
    (pc = "idle") =>
        /\ (op = "LowerBound") =>
               ret = LowerBound(r0, args.first, args.last, args.value)
        /\ (op = "UpperBound") =>
               ret = UpperBound(r0, args.first, args.last, args.value)
        /\ (op = "PartitionPoint") =>
               ret = PartitionPoint(r0, args.first, args.last, args.p)
        /\ (op = "Search") =>
               ret = Search(r0, args.r2, args.first, args.last, args.s_first,
                            args.s_last)
        /\ (op = "SearchN") =>
               ret = SearchN(r0, args.first, args.last, args.count, args.value)
        /\ (op = "Rotate") =>
               LET out == Rotate(r0, args.first, args.middle, args.last)
               IN  /\ r = out.r
                   /\ ret = out.ret
                   /\ loc.depth = out.depth
                   /\ loc.swaps = out.swaps

\* C26: every call of Search, SearchN, LowerBound, UpperBound, PartitionPoint
\* and Rotate on a valid input reaches its return, and Rotate makes at most
\* last - first recursive calls (loc.depth counts the outermost call too).
C26_EveryCallReturns ==
    /\ (pc # "idle") ~> (pc = "idle")
    /\ [](op = "Rotate" => loc.depth - 1 <= args.last - args.first)

\* Rotate returned after two recursive calls that each ran a swap loop.
C26_Witness ==
    /\ op = "Rotate"
    /\ pc = "idle"
    /\ loc.depth >= 3
    /\ r # r0

\* C27: at every step of UniqueCopy and UniqueCopyFunc the destination cursor
\* has advanced no more than the source cursor; called with r2 the same slice
\* as r1 and d_first = first, UniqueCopy never writes a position beyond the
\* one it has just read, and ends with the slice and the return of Unique.
C27_UniqueCopyCursorBehind ==
    (op \in {"UniqueCopy", "UniqueCopyFunc"}) =>
        /\ loc.d_first - args.d_first <= loc.first - args.first
        /\ (op = "UniqueCopy" /\ args.alias) =>
               /\ ~loc.overwrote
               /\ (pc = "idle") =>
                      LET out == Unique(r0, args.first, args.last)
                      IN  r = out.r /\ ret = out.ret

\* UniqueCopy on one slice returned after skipping a duplicate and then moving
\* a different element down.
C27_Witness ==
    /\ op = "UniqueCopy"
    /\ args.alias
    /\ pc = "idle"
    /\ r # r0
    /\ ret - args.first >= 2
    /\ ret < args.last

\* C28: in every call of Rotate with first < middle < last, at every test of
\* the swap loop first <= write <= next_read <= read <= last and write < read;
\* when the loop ends read = last and write = first + (last - middle), so the
\* recursive call gets the valid range write <= next_read <= last, strictly
\* shorter than [first, last); the swaps of all calls together are at most
\* last - first of the outermost call.
C28_RotateLoopInvariant ==
    (op = "Rotate") =>
        /\ loc.swaps <= args.last - args.first
        /\ (pc = "Rotate") =>
               /\ loc.first <= loc.write
               /\ loc.write <= loc.next_read
               /\ loc.next_read <= loc.read
               /\ loc.read <= args.last
               /\ loc.write < loc.read
               /\ (loc.read = args.last) =>
                      /\ loc.write = loc.first + (args.last - loc.middle)
                      /\ args.last - loc.write < args.last - loc.first

\* The swap loop of a recursive call of Rotate has ended with next_read strictly
\* between write and last: a further call with a loop of its own follows.
C28_Witness ==
    /\ op = "Rotate"
    /\ pc = "Rotate"
    /\ loc.depth >= 2
    /\ loc.read = args.last
    /\ loc.write < loc.next_read
    /\ loc.next_read < args.last

====
